---- MODULE Spec2Model ----
(***************************************************************************)
(* Claim resolution of p2p-games: the winner rule (protocol.rs,            *)
(* discovery.rs), the merge tables NameTable and RoomTable (registry.rs,   *)
(* discovery.rs) and the claim / collect / decide rounds built on them.    *)
(*                                                                         *)
(* Strings are sequences of byte values (the ids and names used here are   *)
(* ASCII, so a byte is a character); Rust compares and slices str by       *)
(* bytes.                                                                  *)
(***************************************************************************)
EXTENDS Integers, Sequences, FiniteSets, TLC

VARIABLES
    cmp,        \* the three (owner, ts) pairs handed to the winner rules
    verdict,    \* what the winner rules returned for them, or NoVerdict
    which,      \* the table a run of the table specification exercises
    owners,     \* NameTable.owners: nick_lower -> <<owner, since, casing>>
    names,      \* RoomTable.names: name_lower -> <<owner, since, disp, rid>>
    applied,    \* the claims applied to the table so far, in order
    pc,         \* where the running operation is suspended: join, publish,
                \* collect (th.next() inside the timeout), done; or idle
    op,         \* the operation: claim_unique, claim_room_name, list_rooms
    desired,    \* its argument desired / desired_name
    my_peer_id, \* its argument my_peer_id
    claim,      \* the claim it built (room_id is claim.room_id), or NoClaim
    out,        \* list_rooms: the Vec<RoomSummary> collected so far
    sent,       \* the byte messages it published on its topic handle
    heard,      \* the byte messages th.next() returned in the window
    logging,    \* whether heard is kept (it is history, not program state)
    ended,      \* what ended the window: timeout, recv_err, or none
    failed,     \* the transport call that returned Err to it, or none
    ret,        \* what the operation returned, or NoRet
    known,      \* serve_discovery: what known_rooms() returns when called now
    snaps,      \* serve_discovery: what known_rooms() returned, call by call
    built,      \* the envelope a builder of protocol.rs returned, or NoEnvelope
    early,      \* two peers: the peer whose clock gives the earlier since_ts
    rpc,        \* two peers: where each peer's claim_room_name is suspended
    rclaim,     \* two peers: the claim each peer built (its room_id inside)
    rnames,     \* two peers: each peer's RoomTable.names
    rheard,     \* two peers: the byte messages each peer's th.next() returned
    rret,       \* two peers: what each peer's claim_room_name returned
    inflight,   \* two peers: the messages the topic may still deliver to each
    overlapped  \* two peers: whether both windows have been open at once

ruleVars == <<cmp, verdict>>
tableVars == <<which, owners, names, applied>>
callVars == <<op, desired, my_peer_id>>
roundVars == <<pc, op, desired, my_peer_id, claim, out, sent, heard, logging,
               ended, failed, ret>>
serveVars == <<known, snaps>>
envVars == <<built>>
raceVars == <<early, rpc, rclaim, rnames, rheard, rret, inflight, overlapped>>
sideVars == <<serveVars, envVars, raceVars>>
vars == <<cmp, verdict, which, owners, names, applied, pc, op, desired,
          my_peer_id, claim, out, sent, heard, logging, ended, failed, ret,
          known, snaps, built, early, rpc, rclaim, rnames, rheard, rret,
          inflight, overlapped>>

----------------------------------------------------------------------------
(* Bounds and input sets *)

\* claims applied to one table in a run of the table specification
MaxApplied == 3

\* messages received in one collection window while the window is logged
MaxHeard == 4

\* room summaries list_rooms collects in one window
MaxOut == 4

\* messages each of two racing peers receives in its window
MaxRaceHeard == 2

\* peer ids
alice == <<97, 108, 105, 99, 101>>
bob == <<98, 111, 98>>
paaa == <<112, 45, 97, 97, 97, 97, 97, 97, 49, 49, 49>>  \* "p-aaaaaa111"
Peers == {alice, bob, paaa}

\* owners handed to the winner rules alone: also "a", "b", "z", "al", ""
RuleOwners == Peers \cup {<<97>>, <<98>>, <<122>>, <<97, 108>>, <<>>}

\* desired names: "Ab", "ab" (one key, two casings) and "B"
nameAb == <<65, 98>>
nameab == <<97, 98>>
nameB == <<66>>
Desired == {nameAb, nameab, nameB}

\* claim times (unix ms)
Ts == {50, 100}

\* generated room ids: "lobby-" and one byte standing for the uuid
lobby == <<108, 111, 98, 98, 121, 45>>
Uuids == {<<49>>, <<50>>}
RoomIds == {lobby \o u : u \in Uuids}

\* what uuid::Uuid::new_v4() returns to the operation under study
OwnUuids == {<<49>>}

----------------------------------------------------------------------------
(* str *)

\* char::to_ascii_lowercase on one byte; str::to_lowercase on ASCII text
ToLowerByte(ch) == IF ch \in 65..90 THEN ch + 32 ELSE ch

to_lowercase(s) == [i \in 1..Len(s) |-> ToLowerByte(s[i])]

\* impl Ord for str: byte-wise, a proper prefix is smaller
RECURSIVE StrLt(_, _)
StrLt(s, t) ==
    IF t = <<>> THEN FALSE
    ELSE IF s = <<>> THEN TRUE
    ELSE IF Head(s) # Head(t) THEN Head(s) < Head(t)
    ELSE StrLt(Tail(s), Tail(t))

----------------------------------------------------------------------------
(* The winner rules.  protocol.rs defines the nickname rule under the name  *)
(* name_clame_wins; registry.rs imports and calls it as name_claim_wins.   *)

name_clame_wins_flipped(a_owner, a_ts, b_owner, b_ts) ==
    IF a_ts # b_ts THEN a_ts < b_ts ELSE StrLt(b_owner, a_owner)

name_clame_wins(a_owner, a_ts, b_owner, b_ts) ==
    IF a_ts # b_ts THEN a_ts < b_ts ELSE StrLt(a_owner, b_owner)

room_claim_wins_without_tie_break(a_owner, a_ts, b_owner, b_ts) ==
    a_ts < b_ts

room_claim_wins_nonstrict(a_owner, a_ts, b_owner, b_ts) ==
    IF a_ts # b_ts THEN a_ts < b_ts ELSE ~StrLt(b_owner, a_owner)

room_claim_wins(a_owner, a_ts, b_owner, b_ts) ==
    IF a_ts # b_ts THEN a_ts < b_ts ELSE StrLt(a_owner, b_owner)

----------------------------------------------------------------------------
(* Claims and tables *)

NameClaim(d, peer, ts) ==
    [nick_lower |-> to_lowercase(d), nickname |-> d,
     owner_peer_id |-> peer, since_ts |-> ts]

RoomClaim(d, peer, ts, rid) ==
    [name_lower |-> to_lowercase(d), name |-> d,
     owner_peer_id |-> peer, since_ts |-> ts, room_id |-> rid]

NameClaims == {NameClaim(d, p, t) : d \in Desired, p \in Peers, t \in Ts}

RoomClaims ==
    {RoomClaim(d, p, t, r) : d \in Desired, p \in Peers, t \in Ts, r \in RoomIds}

\* BTreeMap::default() and BTreeMap::insert
EmptyTable == [k \in {} |-> <<>>]

Insert_drops_other_keys(t, k, v) == [x \in {k} |-> v]

Insert(t, k, v) == [x \in (DOMAIN t) \cup {k} |-> IF x = k THEN v ELSE t[x]]

\* NameTable::apply, as the new value of self.owners
apply_retimes_same_owner(t, c) ==
    IF c.nick_lower \notin DOMAIN t
    THEN Insert(t, c.nick_lower, <<c.owner_peer_id, c.since_ts, c.nickname>>)
    ELSE LET owner == t[c.nick_lower][1]
             since == t[c.nick_lower][2]
             casing == t[c.nick_lower][3]
         IN  IF owner = c.owner_peer_id
             THEN Insert(t, c.nick_lower, <<owner, c.since_ts, c.nickname>>)
             ELSE LET win_new ==
                          name_clame_wins(c.owner_peer_id, c.since_ts, owner, since)
                      w == IF win_new
                           THEN <<c.owner_peer_id, c.since_ts, c.nickname>>
                           ELSE <<owner, since, casing>>
                  IN  Insert(t, c.nick_lower, w)

apply_first_claim_stays(t, c) ==
    IF c.nick_lower \notin DOMAIN t
    THEN Insert(t, c.nick_lower, <<c.owner_peer_id, c.since_ts, c.nickname>>)
    ELSE LET owner == t[c.nick_lower][1]
             since == t[c.nick_lower][2]
             casing == t[c.nick_lower][3]
         IN  IF owner = c.owner_peer_id
             THEN IF c.nickname # casing
                  THEN Insert(t, c.nick_lower, <<owner, since, c.nickname>>)
                  ELSE t
             ELSE Insert(t, c.nick_lower, <<owner, since, casing>>)

apply(t, c) ==
    IF c.nick_lower \notin DOMAIN t
    THEN Insert(t, c.nick_lower, <<c.owner_peer_id, c.since_ts, c.nickname>>)
    ELSE LET owner == t[c.nick_lower][1]
             since == t[c.nick_lower][2]
             casing == t[c.nick_lower][3]
         IN  IF owner = c.owner_peer_id
             THEN IF c.nickname # casing
                  THEN Insert(t, c.nick_lower, <<owner, since, c.nickname>>)
                  ELSE t
             ELSE LET win_new ==
                          name_clame_wins(c.owner_peer_id, c.since_ts, owner, since)
                      w == IF win_new
                           THEN <<c.owner_peer_id, c.since_ts, c.nickname>>
                           ELSE <<owner, since, casing>>
                  IN  Insert(t, c.nick_lower, w)

\* RoomTable::apply_claim, as the new value of self.names
apply_claim_keeps_room_id(t, c) ==
    IF c.name_lower \notin DOMAIN t
    THEN Insert(t, c.name_lower,
                <<c.owner_peer_id, c.since_ts, c.name, c.room_id>>)
    ELSE LET owner == t[c.name_lower][1]
             since == t[c.name_lower][2]
             disp == t[c.name_lower][3]
             rid == t[c.name_lower][4]
         IN  IF owner = c.owner_peer_id
             THEN IF (c.name # disp) \/ (c.room_id # rid)
                  THEN Insert(t, c.name_lower, <<owner, since, c.name, c.room_id>>)
                  ELSE t
             ELSE LET win_new ==
                          room_claim_wins(c.owner_peer_id, c.since_ts, owner, since)
                      w == IF win_new
                           THEN <<c.owner_peer_id, c.since_ts, c.name, rid>>
                           ELSE <<owner, since, disp, rid>>
                  IN  Insert(t, c.name_lower, w)

apply_claim_last_claim_wins(t, c) ==
    IF c.name_lower \notin DOMAIN t
    THEN Insert(t, c.name_lower,
                <<c.owner_peer_id, c.since_ts, c.name, c.room_id>>)
    ELSE LET owner == t[c.name_lower][1]
             since == t[c.name_lower][2]
             disp == t[c.name_lower][3]
             rid == t[c.name_lower][4]
         IN  IF owner = c.owner_peer_id
             THEN IF (c.name # disp) \/ (c.room_id # rid)
                  THEN Insert(t, c.name_lower, <<owner, since, c.name, c.room_id>>)
                  ELSE t
             ELSE Insert(t, c.name_lower,
                         <<c.owner_peer_id, c.since_ts, c.name, c.room_id>>)

apply_claim(t, c) ==
    IF c.name_lower \notin DOMAIN t
    THEN Insert(t, c.name_lower,
                <<c.owner_peer_id, c.since_ts, c.name, c.room_id>>)
    ELSE LET owner == t[c.name_lower][1]
             since == t[c.name_lower][2]
             disp == t[c.name_lower][3]
             rid == t[c.name_lower][4]
         IN  IF owner = c.owner_peer_id
             THEN IF (c.name # disp) \/ (c.room_id # rid)
                  THEN Insert(t, c.name_lower, <<owner, since, c.name, c.room_id>>)
                  ELSE t
             ELSE LET win_new ==
                          room_claim_wins(c.owner_peer_id, c.since_ts, owner, since)
                      w == IF win_new
                           THEN <<c.owner_peer_id, c.since_ts, c.name, c.room_id>>
                           ELSE <<owner, since, disp, rid>>
                  IN  Insert(t, c.name_lower, w)

NoClaim == [none |-> TRUE]
NoRet == [none |-> TRUE]

\* no operation is running
Idle ==
    /\ pc = "idle"
    /\ op = "none"
    /\ desired = <<>>
    /\ my_peer_id = <<>>
    /\ claim = NoClaim
    /\ out = <<>>
    /\ sent = <<>>
    /\ heard = <<>>
    /\ logging = FALSE
    /\ ended = "none"
    /\ failed = "none"
    /\ ret = NoRet

NoEnvelope == [none |-> TRUE]

\* no responder, no builder call and no pair of racing peers
SideIdle ==
    /\ known = <<>>
    /\ snaps = <<>>
    /\ built = NoEnvelope
    /\ early = <<>>
    /\ rpc = <<>>
    /\ rclaim = <<>>
    /\ rnames = <<>>
    /\ rheard = <<>>
    /\ rret = <<>>
    /\ inflight = <<>>
    /\ overlapped = FALSE

----------------------------------------------------------------------------
(* The winner rules on their own: inputs drawn at Init, one evaluation *)

NoVerdict == [none |-> TRUE]

RuleInputs == [owner : RuleOwners, ts : Ts \cup {110}]

\* every ordered pair of the three inputs, under both rules
Evaluate(c) ==
    [i \in {1, 2, 3}, j \in {1, 2, 3} |->
        [name |-> name_clame_wins(c[i].owner, c[i].ts, c[j].owner, c[j].ts),
         room |-> room_claim_wins(c[i].owner, c[i].ts, c[j].owner, c[j].ts)]]

RuleInit ==
    /\ cmp \in RuleInputs \X RuleInputs \X RuleInputs
    /\ verdict = NoVerdict
    /\ which = "none"
    /\ owners = EmptyTable
    /\ names = EmptyTable
    /\ applied = <<>>
    /\ Idle
    /\ SideIdle

Compare ==
    /\ verdict = NoVerdict
    /\ verdict' = Evaluate(cmp)
    /\ UNCHANGED <<cmp, tableVars, roundVars, sideVars>>

RuleNext == Compare

RuleSpec == RuleInit /\ [][RuleNext]_vars

----------------------------------------------------------------------------
(* The tables on their own: any claims, in any order, one table per run *)

TableInit ==
    /\ which \in {"NameTable", "RoomTable"}
    /\ owners = EmptyTable
    /\ names = EmptyTable
    /\ applied = <<>>
    /\ cmp = <<>>
    /\ verdict = NoVerdict
    /\ Idle
    /\ SideIdle

NameTableApply(c) ==
    /\ which = "NameTable"
    /\ Len(applied) < MaxApplied
    /\ owners' = apply(owners, c)
    /\ applied' = Append(applied, c)
    /\ UNCHANGED <<which, names, ruleVars, roundVars, sideVars>>

RoomTableApplyClaim(c) ==
    /\ which = "RoomTable"
    /\ Len(applied) < MaxApplied
    /\ names' = apply_claim(names, c)
    /\ applied' = Append(applied, c)
    /\ UNCHANGED <<which, owners, ruleVars, roundVars, sideVars>>

TableNext ==
    \/ \E c \in NameClaims : NameTableApply(c)
    \/ \E c \in RoomClaims : RoomTableApplyClaim(c)

TableSpec == TableInit /\ [][TableNext]_vars

----------------------------------------------------------------------------
(* Envelopes and their JSON form *)

PROTOCOL_VER == 1

None == [none |-> TRUE]
Some(x) == [some |-> x]
JsonNull == [null |-> TRUE]

\* bytes that are not JSON at all (noise, a truncated message)
Garbage == [garbage |-> TRUE]

\* #[serde(rename_all = "UPPERCASE")] on Kind and Scope
KindToken(k) ==
    CASE k = "Discovery" -> "DISCOVERY"
      [] k = "Room" -> "ROOM"
      [] k = "Chat" -> "CHAT"
      [] k = "Game" -> "GAME"

KindOfToken(tok) ==
    CASE tok = "DISCOVERY" -> "Discovery"
      [] tok = "ROOM" -> "Room"
      [] tok = "CHAT" -> "Chat"
      [] tok = "GAME" -> "Game"

ScopeToken(sc) == CASE sc = "Global" -> "GLOBAL" [] sc = "Room" -> "ROOM"

ScopeOfToken(tok) == CASE tok = "GLOBAL" -> "Global" [] tok = "ROOM" -> "Room"

Envelope(kind, scope, room_id, sender_id, msg_id, ts, body) ==
    [ver |-> PROTOCOL_VER, kind |-> kind, scope |-> scope, room_id |-> room_id,
     sender_id |-> sender_id, msg_id |-> msg_id, ts |-> ts, body |-> body]

\* DiscoveryBody and RoomSummary values
ListRoomsReq == [variant |-> "ListRoomsReq"]
ListRoomsRes(rooms) == [variant |-> "ListRoomsRes", rooms |-> rooms]
AnnounceRoom(room_id, title, host_id, created_at) ==
    [variant |-> "AnnounceRoom", room_id |-> room_id, title |-> title,
     host_id |-> host_id, created_at |-> created_at]

RoomSummary(room_id, title, host_id, last_seen) ==
    [room_id |-> room_id, title |-> title, host_id |-> host_id,
     last_seen |-> last_seen]

\* #[serde(tag = "type", rename_all = "SCREAMING_SNAKE_CASE")]
DiscoveryBodyJson(b) ==
    CASE b.variant = "ListRoomsReq" -> [type |-> "LIST_ROOMS_REQ"]
      [] b.variant = "ListRoomsRes" -> [type |-> "LIST_ROOMS_RES", rooms |-> b.rooms]
      [] b.variant = "AnnounceRoom" ->
            [type |-> "ANNOUNCE_ROOM", room_id |-> b.room_id, title |-> b.title,
             host_id |-> b.host_id, created_at |-> b.created_at]

\* serde_json::to_vec(&env), given the JSON of the body
to_vec(env, body_json) ==
    [ver |-> env.ver, kind |-> KindToken(env.kind), scope |-> ScopeToken(env.scope),
     room_id |-> IF env.room_id = None THEN JsonNull ELSE env.room_id.some,
     sender_id |-> env.sender_id, msg_id |-> env.msg_id, ts |-> env.ts,
     body |-> body_json]

DecodeErr == [ok |-> FALSE]

\* the fields of Envelope<T> other than body (a missing Option is None)
HeaderOk(b) ==
    /\ {"ver", "kind", "scope", "sender_id", "msg_id", "ts", "body"} \subseteq DOMAIN b
    /\ b.kind \in {"DISCOVERY", "ROOM", "CHAT", "GAME"}
    /\ b.scope \in {"GLOBAL", "ROOM"}

Decoded(b, body) ==
    [ok |-> TRUE,
     env |-> [ver |-> b.ver, kind |-> KindOfToken(b.kind),
              scope |-> ScopeOfToken(b.scope),
              room_id |-> IF "room_id" \notin DOMAIN b \/ b.room_id = JsonNull
                          THEN None ELSE Some(b.room_id),
              sender_id |-> b.sender_id, msg_id |-> b.msg_id, ts |-> b.ts,
              body |-> body]]

\* serde_json::from_slice::<Envelope<NameClaim>>(&b)
from_slice_NameClaim(b) ==
    IF /\ HeaderOk(b)
       /\ {"nick_lower", "nickname", "owner_peer_id", "since_ts"}
              \subseteq DOMAIN b.body
    THEN Decoded(b, [nick_lower |-> b.body.nick_lower, nickname |-> b.body.nickname,
                     owner_peer_id |-> b.body.owner_peer_id,
                     since_ts |-> b.body.since_ts])
    ELSE DecodeErr

\* serde_json::from_slice::<Envelope<RoomClaim>>(&b)
from_slice_RoomClaim(b) ==
    IF /\ HeaderOk(b)
       /\ {"name_lower", "name", "owner_peer_id", "since_ts", "room_id"}
              \subseteq DOMAIN b.body
    THEN Decoded(b, [name_lower |-> b.body.name_lower, name |-> b.body.name,
                     owner_peer_id |-> b.body.owner_peer_id,
                     since_ts |-> b.body.since_ts, room_id |-> b.body.room_id])
    ELSE DecodeErr

\* serde_json::from_slice::<Envelope<DiscoveryBody>>(&b)
from_slice_DiscoveryBody(b) ==
    IF HeaderOk(b) /\ "type" \in DOMAIN b.body
    THEN CASE b.body.type = "LIST_ROOMS_REQ" -> Decoded(b, ListRoomsReq)
           [] b.body.type = "LIST_ROOMS_RES" /\ "rooms" \in DOMAIN b.body ->
                 Decoded(b, ListRoomsRes(b.body.rooms))
           [] /\ b.body.type = "ANNOUNCE_ROOM"
              /\ {"room_id", "title", "host_id", "created_at"} \subseteq DOMAIN b.body ->
                 Decoded(b, AnnounceRoom(b.body.room_id, b.body.title,
                                         b.body.host_id, b.body.created_at))
           [] OTHER -> DecodeErr
    ELSE DecodeErr

\* the envelopes the operations build for their own message
NameClaimEnvelope(c, msg_id) ==
    Envelope("Room", "Global", None, c.owner_peer_id, msg_id, c.since_ts, c)

RoomClaimEnvelope(c, msg_id) ==
    Envelope("Discovery", "Global", None, c.owner_peer_id, msg_id, c.since_ts, c)

ListRoomsReqEnvelope(msg_id, ts) ==
    Envelope("Discovery", "Global", None, "client", msg_id, ts, ListRoomsReq)

----------------------------------------------------------------------------
(* What the topics deliver to the operation under study *)

\* claims other rounds published for the key "ab" (in the casing "ab"), and
\* one claim for the unrelated key "b"
HeardNameClaims ==
    {NameClaim(nameab, p, t) : p \in Peers, t \in Ts}
        \cup {NameClaim(nameB, alice, 50)}

HeardRoomClaims ==
    {RoomClaim(nameab, p, t, lobby \o <<50>>) : p \in Peers, t \in Ts}
        \cup {RoomClaim(nameB, alice, 50, lobby \o <<50>>)}

summary1 == RoomSummary(lobby \o <<49>>, nameAb, alice, 50)
summary2 == RoomSummary(lobby \o <<50>>, nameB, bob, 100)

HeardDiscoveryBodies ==
    {ListRoomsReq, AnnounceRoom(lobby \o <<49>>, nameAb, alice, 50),
     ListRoomsRes(<<>>), ListRoomsRes(<<summary1>>), ListRoomsRes(<<summary2>>),
     ListRoomsRes(<<summary1, summary2>>)}

\* a well-formed envelope whose body carries a tag no variant has
UnknownTag ==
    to_vec(Envelope("Discovery", "Global", None, alice, "uuid", 50, None),
           [type |-> "ROOM_CLOSED"])

NameTopicBytes ==
    {to_vec(NameClaimEnvelope(c, "uuid"), c) : c \in HeardNameClaims}
        \cup {Garbage, UnknownTag}

RoomTopicBytes ==
    {to_vec(RoomClaimEnvelope(c, "uuid"), c) : c \in HeardRoomClaims}
        \cup {Garbage, UnknownTag}

DiscoveryTopicBytes ==
    {to_vec(Envelope("Discovery", "Global", None, "server", "uuid", 100, b),
            DiscoveryBodyJson(b)) : b \in HeardDiscoveryBodies}
        \cup {Garbage, UnknownTag}

TopicBytes ==
    CASE op = "claim_unique" -> NameTopicBytes
      [] op = "claim_room_name" -> RoomTopicBytes
      [] op = "list_rooms" -> DiscoveryTopicBytes

----------------------------------------------------------------------------
(* claim_unique, claim_room_name, list_rooms: one call *)

SuffixLen == 6

Min(a, b) == IF a < b THEN a ELSE b

Ok(v) == [ok |-> TRUE, val |-> v]
Err(e) == [ok |-> FALSE, err |-> e]

\* registry.rs 96-103: the decision of claim_unique
claim_unique_decision_lower_fallback(t, d, me) ==
    IF to_lowercase(d) \in DOMAIN t /\ t[to_lowercase(d)][1] = me
    THEN <<t[to_lowercase(d)][3], TRUE>>
    ELSE <<to_lowercase(d) \o <<45>> \o SubSeq(me, 1, Min(SuffixLen, Len(me))),
           FALSE>>

claim_unique_decision_returns_desired(t, d, me) ==
    IF to_lowercase(d) \in DOMAIN t /\ t[to_lowercase(d)][1] = me
    THEN <<d, TRUE>>
    ELSE <<d \o <<45>> \o SubSeq(me, 1, Min(SuffixLen, Len(me))), FALSE>>

claim_unique_decision(t, d, me) ==
    IF to_lowercase(d) \in DOMAIN t /\ t[to_lowercase(d)][1] = me
    THEN <<t[to_lowercase(d)][3], TRUE>>
    ELSE <<d \o <<45>> \o SubSeq(me, 1, Min(SuffixLen, Len(me))), FALSE>>

\* discovery.rs 140-145: the decision of claim_room_name
claim_room_name_decision_owned_if_present(t, d, me, room_id) ==
    IF to_lowercase(d) \in DOMAIN t
    THEN <<t[to_lowercase(d)][4], TRUE>>
    ELSE <<room_id, FALSE>>

claim_room_name_decision(t, d, me, room_id) ==
    IF to_lowercase(d) \in DOMAIN t /\ t[to_lowercase(d)][1] = me
    THEN <<t[to_lowercase(d)][4], TRUE>>
    ELSE <<room_id, FALSE>>

\* what the operation returns once its window has closed
Decision ==
    CASE op = "claim_unique" -> claim_unique_decision(owners, desired, my_peer_id)
      [] op = "claim_room_name" ->
            claim_room_name_decision(names, desired, my_peer_id, claim.room_id)
      [] op = "list_rooms" -> out

\* the call: the arguments, and the operation suspended in join_topic
RoundStart ==
    /\ pc = "join"
    /\ \/ /\ op \in {"claim_unique", "claim_room_name"}
          /\ desired = nameAb
          /\ my_peer_id \in {bob, paaa}
       \/ /\ op = "list_rooms"
          /\ desired = <<>>
          /\ my_peer_id = <<>>
    /\ claim = NoClaim
    /\ owners = EmptyTable
    /\ names = EmptyTable
    /\ out = <<>>
    /\ sent = <<>>
    /\ heard = <<>>
    /\ ended = "none"
    /\ failed = "none"
    /\ ret = NoRet
    /\ which = "none"
    /\ applied = <<>>
    /\ cmp = <<>>
    /\ verdict = NoVerdict
    /\ SideIdle

RoundInit == RoundStart /\ logging = TRUE

\* join_topic(topic).await? returned Ok; the operation builds its claim
\* (now_ms(), Uuid::new_v4()) and is suspended in th.publish
JoinOk ==
    /\ pc = "join"
    /\ pc' = "publish"
    /\ \/ /\ op = "claim_unique"
          /\ \E t \in Ts : claim' = NameClaim(desired, my_peer_id, t)
       \/ /\ op = "claim_room_name"
          /\ \E t \in Ts, u \in OwnUuids :
                 claim' = RoomClaim(desired, my_peer_id, t, lobby \o u)
       \/ /\ op = "list_rooms"
          /\ claim' = NoClaim
    /\ UNCHANGED <<ruleVars, sideVars, tableVars, callVars, out, sent, heard,
                   logging, ended, failed, ret>>

\* join_topic(topic).await? returned Err: the operation returns it
JoinErr ==
    /\ pc = "join"
    /\ pc' = "done"
    /\ failed' = "join_topic"
    /\ ret' = Err("join_topic")
    /\ UNCHANGED <<ruleVars, sideVars, tableVars, callVars, claim, out, sent,
                   heard, logging, ended>>

\* th.publish(&bytes).await? returned Ok; the fresh table is seeded with the
\* own claim and the operation is suspended in th.next() under the timeout
PublishOk ==
    /\ pc = "publish"
    /\ pc' = "collect"
    /\ \/ /\ op = "claim_unique"
          /\ sent' = Append(sent, to_vec(NameClaimEnvelope(claim, "uuid"), claim))
          /\ owners' = apply(EmptyTable, claim)
          /\ UNCHANGED <<names, out>>
       \/ /\ op = "claim_room_name"
          /\ sent' = Append(sent, to_vec(RoomClaimEnvelope(claim, "uuid"), claim))
          /\ names' = apply_claim(EmptyTable, claim)
          /\ UNCHANGED <<owners, out>>
       \/ /\ op = "list_rooms"
          /\ \E t \in Ts :
                 sent' = Append(sent, to_vec(ListRoomsReqEnvelope("uuid", t),
                                             DiscoveryBodyJson(ListRoomsReq)))
          /\ out' = <<>>
          /\ UNCHANGED <<owners, names>>
    /\ UNCHANGED <<ruleVars, sideVars, which, applied, callVars, claim, heard,
                   logging, ended, failed, ret>>

\* th.publish(&bytes).await? returned Err: the operation returns it
PublishErr_ignored ==
    /\ pc = "publish"
    /\ pc' = "collect"
    /\ failed' = "publish"
    /\ \/ /\ op = "claim_unique"
          /\ owners' = apply(EmptyTable, claim)
          /\ UNCHANGED <<names, out>>
       \/ /\ op = "claim_room_name"
          /\ names' = apply_claim(EmptyTable, claim)
          /\ UNCHANGED <<owners, out>>
       \/ /\ op = "list_rooms"
          /\ out' = <<>>
          /\ UNCHANGED <<owners, names>>
    /\ UNCHANGED <<ruleVars, sideVars, which, applied, callVars, claim, sent,
                   heard, logging, ended, ret>>

PublishErr ==
    /\ pc = "publish"
    /\ pc' = "done"
    /\ failed' = "publish"
    /\ ret' = Err("publish")
    /\ UNCHANGED <<ruleVars, sideVars, tableVars, callVars, claim, out, sent,
                   heard, logging, ended>>

\* the history of the window, kept while it is logged
Log(b) ==
    /\ logging => Len(heard) < MaxHeard
    /\ heard' = IF logging THEN Append(heard, b) ELSE heard

\* the loop body on Ok(b): decode, apply or extend, go on
Recv_stops_on_decode_error(b) ==
    /\ pc = "collect"
    /\ Log(b)
    /\ \/ /\ op = "claim_unique"
          /\ LET d == from_slice_NameClaim(b)
             IN  /\ owners' = IF d.ok THEN apply(owners, d.env.body) ELSE owners
                 /\ pc' = IF d.ok THEN "collect" ELSE "done"
                 /\ ended' = IF d.ok THEN ended ELSE "decode_err"
                 /\ ret' = IF d.ok THEN ret
                           ELSE Ok(claim_unique_decision(owners, desired, my_peer_id))
          /\ UNCHANGED <<names, out>>
       \/ /\ op = "claim_room_name"
          /\ LET d == from_slice_RoomClaim(b)
             IN  names' = IF d.ok THEN apply_claim(names, d.env.body) ELSE names
          /\ UNCHANGED <<owners, out, pc, ended, ret>>
       \/ /\ op = "list_rooms"
          /\ LET d == from_slice_DiscoveryBody(b)
             IN  out' = IF d.ok /\ d.env.body.variant = "ListRoomsRes"
                        THEN out \o d.env.body.rooms ELSE out
          /\ Len(out') <= MaxOut
          /\ UNCHANGED <<owners, names, pc, ended, ret>>
    /\ UNCHANGED <<ruleVars, sideVars, which, applied, callVars, claim, sent,
                   logging, failed>>

Recv_skips_known_rooms(b) ==
    /\ pc = "collect"
    /\ Log(b)
    /\ \/ /\ op = "claim_unique"
          /\ LET d == from_slice_NameClaim(b)
             IN  owners' = IF d.ok THEN apply(owners, d.env.body) ELSE owners
          /\ UNCHANGED <<names, out>>
       \/ /\ op = "claim_room_name"
          /\ LET d == from_slice_RoomClaim(b)
             IN  names' = IF d.ok THEN apply_claim(names, d.env.body) ELSE names
          /\ UNCHANGED <<owners, out>>
       \/ /\ op = "list_rooms"
          /\ LET d == from_slice_DiscoveryBody(b)
                 have == {out[i] : i \in 1..Len(out)}
                 fresh(r) == r \notin have
             IN  out' = IF d.ok /\ d.env.body.variant = "ListRoomsRes"
                        THEN out \o SelectSeq(d.env.body.rooms, fresh) ELSE out
          /\ Len(out') <= MaxOut
          /\ UNCHANGED <<owners, names>>
    /\ UNCHANGED <<ruleVars, sideVars, which, applied, callVars, claim, sent,
                   logging, pc, ended, failed, ret>>

Recv(b) ==
    /\ pc = "collect"
    /\ Log(b)
    /\ \/ /\ op = "claim_unique"
          /\ LET d == from_slice_NameClaim(b)
             IN  owners' = IF d.ok THEN apply(owners, d.env.body) ELSE owners
          /\ UNCHANGED <<names, out>>
       \/ /\ op = "claim_room_name"
          /\ LET d == from_slice_RoomClaim(b)
             IN  names' = IF d.ok THEN apply_claim(names, d.env.body) ELSE names
          /\ UNCHANGED <<owners, out>>
       \/ /\ op = "list_rooms"
          /\ LET d == from_slice_DiscoveryBody(b)
             IN  out' = IF d.ok /\ d.env.body.variant = "ListRoomsRes"
                        THEN out \o d.env.body.rooms ELSE out
          /\ Len(out') <= MaxOut
          /\ UNCHANGED <<owners, names>>
    /\ UNCHANGED <<ruleVars, sideVars, which, applied, callVars, claim, sent,
                   logging, pc, ended, failed, ret>>

\* the window is over and the operation returns Ok with its decision
Finish_reclaims_fallback(cause) ==
    /\ pc' = "done"
    /\ ended' = cause
    /\ failed' = IF cause = "recv_err" THEN "next" ELSE failed
    /\ ret' = Ok(Decision)
    /\ sent' = IF op = "claim_unique" /\ ~Decision[2]
               THEN LET again == NameClaim(Decision[1], my_peer_id, claim.since_ts)
                    IN  Append(sent, to_vec(NameClaimEnvelope(again, "uuid"), again))
               ELSE sent
    /\ UNCHANGED <<ruleVars, sideVars, tableVars, callVars, claim, out, heard,
                   logging>>

Finish(cause) ==
    /\ pc' = "done"
    /\ ended' = cause
    /\ failed' = IF cause = "recv_err" THEN "next" ELSE failed
    /\ ret' = Ok(Decision)
    /\ UNCHANGED <<ruleVars, sideVars, tableVars, callVars, claim, out, sent,
                   heard, logging>>

\* th.next() returned Err (a receive failure, the topic closed): break
RecvErr_propagates ==
    /\ pc = "collect"
    /\ pc' = "done"
    /\ ended' = "recv_err"
    /\ failed' = "next"
    /\ ret' = Err("next")
    /\ UNCHANGED <<ruleVars, sideVars, tableVars, callVars, claim, out, sent,
                   heard, logging>>

RecvErr ==
    /\ pc = "collect"
    /\ Finish("recv_err")

\* wait_ms elapsed while the loop was suspended in th.next(): the timeout
\* drops the loop and its Err(Elapsed) is discarded by `let _ =`
Expire_returns_elapsed ==
    /\ pc = "collect"
    /\ pc' = "done"
    /\ ended' = "timeout"
    /\ ret' = Err("elapsed")
    /\ UNCHANGED <<ruleVars, sideVars, tableVars, callVars, claim, out, sent,
                   heard, logging, failed>>

Expire ==
    /\ pc = "collect"
    /\ Finish("timeout")

RoundNext ==
    \/ JoinOk
    \/ JoinErr
    \/ PublishOk
    \/ PublishErr
    \/ \E b \in TopicBytes : Recv(b)
    \/ RecvErr
    \/ Expire

RoundSpec == RoundInit /\ [][RoundNext]_vars

\* the same call with the window unlogged, so that messages can keep arriving
\* for ever; the timer of tokio::time::timeout fires once the deadline has
\* passed and the loop is suspended, which every th.next() does (tokio's
\* Mutex::lock and the gossip stream yield under the cooperative budget)
LiveInit == RoundStart /\ logging = FALSE

LiveSpec == LiveInit /\ [][RoundNext]_vars /\ WF_vars(Expire)

----------------------------------------------------------------------------
(* Properties of the winner rule (RuleSpec) *)

\* s is lexicographically smaller than t: they agree on a prefix after which
\* s ends and t goes on, or s has the smaller byte
LexSmaller(s, t) ==
    \E k \in 0..Len(s) :
        /\ k <= Len(t)
        /\ \A i \in 1..k : s[i] = t[i]
        /\ \/ k = Len(s) /\ k < Len(t)
           \/ k < Len(s) /\ k < Len(t) /\ s[k + 1] < t[k + 1]

EarlierThenSmaller(a, b) ==
    a.ts < b.ts \/ (a.ts = b.ts /\ LexSmaller(a.owner, b.owner))

\* C3: wins(a, b) is true exactly when a_ts < b_ts, or the timestamps are equal
\* and a_owner is lexicographically smaller; name_clame_wins and
\* room_claim_wins return the same result for every input.
C3_WinsIsEarlierThenSmaller ==
    verdict # NoVerdict =>
        \A i \in {1, 2, 3}, j \in {1, 2, 3} :
            /\ verdict[i, j].name = EarlierThenSmaller(cmp[i], cmp[j])
            /\ verdict[i, j].room = verdict[i, j].name

\* (bob,100) against (alice,100) goes to alice; (z,50) beats (alice,100)
C3_Witness ==
    /\ verdict # NoVerdict
    /\ cmp = <<[owner |-> bob, ts |-> 100], [owner |-> alice, ts |-> 100],
               [owner |-> <<122>>, ts |-> 50]>>
    /\ verdict[2, 1].name /\ ~verdict[1, 2].name
    /\ verdict[3, 1].room /\ verdict[3, 2].room

\* C4: the rule is a strict total order on the claims of one key: claims of
\* different owners are ordered exactly one way, no claim beats itself, and
\* the rule is transitive.
C4_StrictTotalOrder ==
    verdict # NoVerdict =>
        \A r \in {"name", "room"} :
            /\ \A i \in {1, 2, 3}, j \in {1, 2, 3} :
                   cmp[i].owner # cmp[j].owner =>
                       verdict[i, j][r] = ~verdict[j, i][r]
            /\ \A i \in {1, 2, 3} : ~verdict[i, i][r]
            /\ \A i \in {1, 2, 3}, j \in {1, 2, 3}, k \in {1, 2, 3} :
                   verdict[i, j][r] /\ verdict[j, k][r] => verdict[i, k][r]

\* three owners, a tie on the timestamp broken by the owner, and a chain
C4_Witness ==
    /\ verdict # NoVerdict
    /\ cmp[1].owner # cmp[2].owner /\ cmp[2].owner # cmp[3].owner
    /\ cmp[1].owner # cmp[3].owner
    /\ cmp[1].ts = cmp[2].ts /\ cmp[2].ts < cmp[3].ts
    /\ verdict[1, 2].name /\ verdict[2, 3].name /\ verdict[1, 3].name
    /\ verdict[1, 2].room /\ ~verdict[2, 1].room

----------------------------------------------------------------------------
(* Properties of the tables (TableSpec) *)

RECURSIVE FoldName(_, _)
FoldName(t, s) == IF s = <<>> THEN t ELSE FoldName(apply(t, Head(s)), Tail(s))

RECURSIVE FoldRoom(_, _)
FoldRoom(t, s) == IF s = <<>> THEN t ELSE FoldRoom(apply_claim(t, Head(s)), Tail(s))

Fold(s) == IF which = "NameTable" THEN FoldName(EmptyTable, s)
           ELSE FoldRoom(EmptyTable, s)

Table == IF which = "NameTable" THEN owners ELSE names

Perms(n) == {f \in [1..n -> 1..n] : \A i, j \in 1..n : f[i] = f[j] => i = j}

Permuted(s, f) == [i \in 1..Len(s) |-> s[f[i]]]

\* s with its i-th element delivered again right after position j
Redelivered(s, i, j) == SubSeq(s, 1, j) \o <<s[i]>> \o SubSeq(s, j + 1, Len(s))

\* C1: the claims applied so far, applied to an empty table in any other
\* order, give the same record for every key.
C1_AnyOrderSameTable ==
    \A f \in Perms(Len(applied)) : Fold(Permuted(applied, f)) = Table

\* C2: delivering again, at any later position, a claim applied earlier does
\* not change the owner the table ends with for any key.
C2_RedeliveryKeepsOwner ==
    \A i \in 1..Len(applied) : \A j \in i..Len(applied) :
        LET again == Fold(Redelivered(applied, i, j))
        IN  \A k \in DOMAIN Table : again[k][1] = Table[k][1]

\* the claim of the step that was just taken, and its key
Last == applied'[Len(applied')]

NameStep == which = "NameTable" /\ applied' # applied
RoomStep == which = "RoomTable" /\ applied' # applied

\* C5: a claim by the owner of the existing record leaves the record's owner
\* and since_ts as they were, whatever since_ts it carries; nothing but the
\* casing (and the room id) of that one record changes.
C5_SameOwnerKeepsOwnerAndSince ==
    [][/\ (NameStep /\ Last.nick_lower \in DOMAIN owners
                    /\ owners[Last.nick_lower][1] = Last.owner_peer_id) =>
              LET k == Last.nick_lower
              IN  /\ DOMAIN owners' = DOMAIN owners
                  /\ \A x \in DOMAIN owners : x # k => owners'[x] = owners[x]
                  /\ owners'[k][1] = owners[k][1]
                  /\ owners'[k][2] = owners[k][2]
                  /\ owners'[k][3] = Last.nickname
       /\ (RoomStep /\ Last.name_lower \in DOMAIN names
                    /\ names[Last.name_lower][1] = Last.owner_peer_id) =>
              LET k == Last.name_lower
              IN  /\ DOMAIN names' = DOMAIN names
                  /\ \A x \in DOMAIN names : x # k => names'[x] = names[x]
                  /\ names'[k][1] = names[k][1]
                  /\ names'[k][2] = names[k][2]
                  /\ names'[k][3] = Last.name
                  /\ names'[k][4] = Last.room_id]_vars

\* the owner claimed "Ab" at 100 and then "ab" at 50: the record keeps 100
C5_Witness ==
    /\ which = "RoomTable"
    /\ Len(applied) = 2
    /\ applied[1].owner_peer_id = applied[2].owner_peer_id
    /\ applied[1].name_lower = applied[2].name_lower
    /\ applied[1].since_ts = 100 /\ applied[2].since_ts = 50
    /\ applied[1].name # applied[2].name
    /\ applied[1].room_id # applied[2].room_id
    /\ names[applied[1].name_lower] =
           <<applied[1].owner_peer_id, 100, applied[2].name, applied[2].room_id>>

\* C6: a claim for a key without a record becomes the record; a claim by
\* another owner than the record's leaves either the whole claim or the whole
\* previous record, whichever wins under the rule.
C6_InsertOrWholeWinner ==
    [][/\ (NameStep /\ Last.nick_lower \notin DOMAIN owners) =>
              owners'[Last.nick_lower] =
                  <<Last.owner_peer_id, Last.since_ts, Last.nickname>>
       /\ (NameStep /\ Last.nick_lower \in DOMAIN owners
                    /\ owners[Last.nick_lower][1] # Last.owner_peer_id) =>
              LET old == owners[Last.nick_lower]
              IN  owners'[Last.nick_lower] =
                      IF name_clame_wins(Last.owner_peer_id, Last.since_ts,
                                         old[1], old[2])
                      THEN <<Last.owner_peer_id, Last.since_ts, Last.nickname>>
                      ELSE old
       /\ (RoomStep /\ Last.name_lower \notin DOMAIN names) =>
              names'[Last.name_lower] =
                  <<Last.owner_peer_id, Last.since_ts, Last.name, Last.room_id>>
       /\ (RoomStep /\ Last.name_lower \in DOMAIN names
                    /\ names[Last.name_lower][1] # Last.owner_peer_id) =>
              LET old == names[Last.name_lower]
              IN  names'[Last.name_lower] =
                      IF room_claim_wins(Last.owner_peer_id, Last.since_ts,
                                         old[1], old[2])
                      THEN <<Last.owner_peer_id, Last.since_ts, Last.name,
                             Last.room_id>>
                      ELSE old]_vars

\* another owner's earlier claim, in another casing and with another room id,
\* replaced the record as a whole
C6_Witness ==
    /\ which = "RoomTable"
    /\ Len(applied) = 2
    /\ applied[1].owner_peer_id # applied[2].owner_peer_id
    /\ applied[1].name_lower = applied[2].name_lower
    /\ applied[1].name # applied[2].name
    /\ applied[1].room_id # applied[2].room_id
    /\ applied[2].since_ts < applied[1].since_ts
    /\ names[applied[2].name_lower] =
           <<applied[2].owner_peer_id, applied[2].since_ts, applied[2].name,
             applied[2].room_id>>

----------------------------------------------------------------------------
(* Properties of one call (RoundSpec, LiveSpec) *)

Key == to_lowercase(desired)

\* whether the operation's decode accepts the bytes
Decodes(b) ==
    CASE op = "claim_unique" -> from_slice_NameClaim(b).ok
      [] op = "claim_room_name" -> from_slice_RoomClaim(b).ok
      [] op = "list_rooms" -> from_slice_DiscoveryBody(b).ok

\* the body the operation's decode yields for bytes it accepts
BodyOf(b) ==
    CASE op = "claim_unique" -> from_slice_NameClaim(b).env.body
      [] op = "claim_room_name" -> from_slice_RoomClaim(b).env.body
      [] op = "list_rooms" -> from_slice_DiscoveryBody(b).env.body

\* no claim for lower(desired) by another peer was received in the window
NoRivalHeard ==
    \A i \in 1..Len(heard) :
        LET d == from_slice_NameClaim(heard[i])
        IN  d.ok => \/ d.env.body.nick_lower # Key
                    \/ d.env.body.owner_peer_id = my_peer_id

\* C7: a claim_unique whose window brought no claim for lower(desired) by
\* another peer returns owned = true and the desired name as passed in.
C7_SoleClaimantGetsDesired ==
    (pc = "done" /\ op = "claim_unique" /\ ret.ok /\ NoRivalHeard) =>
        ret.val = <<desired, TRUE>>

\* the first n characters of s, all of s when it has fewer
FirstChars(s, n) == IF Len(s) < n THEN s ELSE [i \in 1..n |-> s[i]]

\* C8: a claim_unique that ends its window with the record of lower(desired)
\* owned by another peer returns owned = false and the name desired, "-", and
\* the first 6 characters of my_peer_id (all of it when shorter).
C8_FallbackName ==
    (/\ pc = "done" /\ op = "claim_unique" /\ ret.ok
     /\ Key \in DOMAIN owners /\ owners[Key][1] # my_peer_id) =>
        ret.val = <<desired \o <<45>> \o FirstChars(my_peer_id, 6), FALSE>>

\* "p-aaaaaa111" lost "Ab": the fallback is "Ab-p-aaaa"
C8_Witness ==
    /\ pc = "done" /\ op = "claim_unique"
    /\ my_peer_id = paaa
    /\ Key \in DOMAIN owners
    /\ owners[Key][1] = alice
    /\ ret = Ok(<<(<<65, 98, 45, 112, 45, 97, 97, 97, 97>>), FALSE>>)

\* the window's messages without those the decode rejects, as bodies
CleanBodies ==
    LET clean == SelectSeq(heard, Decodes)
    IN  [i \in 1..Len(clean) |-> BodyOf(clean[i])]

RECURSIVE Concat(_)
Concat(s) ==
    IF s = <<>> THEN <<>>
    ELSE (IF Head(s).variant = "ListRoomsRes" THEN Head(s).rooms ELSE <<>>)
             \o Concat(Tail(s))

\* what the operation returns for the window without its undecodable messages
CleanResult ==
    CASE op = "claim_unique" ->
            claim_unique_decision(FoldName(apply(EmptyTable, claim), CleanBodies),
                                  desired, my_peer_id)
      [] op = "claim_room_name" ->
            claim_room_name_decision(
                FoldRoom(apply_claim(EmptyTable, claim), CleanBodies),
                desired, my_peer_id, claim.room_id)
      [] op = "list_rooms" -> Concat(CleanBodies)

\* the table or list the operation holds for the window without its
\* undecodable messages
CleanState ==
    CASE op = "claim_unique" -> FoldName(apply(EmptyTable, claim), CleanBodies)
      [] op = "claim_room_name" ->
            FoldRoom(apply_claim(EmptyTable, claim), CleanBodies)
      [] op = "list_rooms" -> Concat(CleanBodies)

Collected ==
    CASE op = "claim_unique" -> owners
      [] op = "claim_room_name" -> names
      [] op = "list_rooms" -> out

\* C9: the messages the decode rejects leave no trace in the table or the
\* list and do not end the loop (only the timeout or a receive error does);
\* the operation returns what it would return for the same window without
\* them.
C9_UndecodableIsSkipped ==
    /\ (pc = "collect" \/ (pc = "done" /\ ret.ok)) => Collected = CleanState
    /\ (pc = "done" /\ ret.ok) =>
           /\ ret = Ok(CleanResult)
           /\ ended \in {"timeout", "recv_err"}

\* three undecodable messages around one valid claim of an earlier claimant
C9_Witness ==
    /\ pc = "done" /\ op = "claim_unique" /\ ret.ok
    /\ Len(heard) = 4
    /\ heard[1] = Garbage /\ heard[3] = UnknownTag /\ heard[4] = Garbage
    /\ Decodes(heard[2])
    /\ BodyOf(heard[2]).nick_lower = Key
    /\ BodyOf(heard[2]).owner_peer_id # my_peer_id
    /\ BodyOf(heard[2]).since_ts < claim.since_ts
    /\ ret.val[2] = FALSE

\* C10: once join and publish have succeeded the operation returns Ok, however
\* many messages arrive in its window; an expired window returns Ok.
C10_WindowReturnsOk ==
    /\ (pc = "collect") ~> (pc = "done" /\ ret.ok)
    /\ [](ended = "timeout" => ret.ok)

\* a window that brought a rival's claim before it expired
C10_Witness ==
    /\ pc = "done" /\ ended = "timeout"
    /\ op = "claim_room_name"
    /\ Key \in DOMAIN names
    /\ names[Key][1] # my_peer_id
    /\ ret = Ok(<<claim.room_id, FALSE>>)

----------------------------------------------------------------------------
(* Transport failures of one call (RoundSpec) *)

\* C11 (as stated): if join_topic, publish or receive returned an error to
\* claim_unique, claim_room_name or list_rooms, the operation returns an
\* error to its caller instead of a decision or a list.
C11_TransportFailureIsReturned ==
    (pc = "done" /\ failed # "none") => ~ret.ok

\* C11 (amended): an error of join_topic or publish is what the operation
\* returns, with nothing decided and no window opened; an error of receive is
\* not returned: it closes the window and the operation returns Ok.
C11_JoinOrPublishFailureIsReturned ==
    pc = "done" =>
        /\ failed \in {"join_topic", "publish"} =>
               /\ ret = Err(failed)
               /\ ended = "none"
               /\ sent = <<>> /\ heard = <<>>
        /\ failed = "next" => ret.ok /\ ended = "recv_err"
        /\ ret.ok = (failed \notin {"join_topic", "publish"})

\* list_rooms joined the topic and its publish failed
C11_Witness ==
    /\ pc = "done" /\ op = "list_rooms"
    /\ failed = "publish"
    /\ ret = Err("publish")

----------------------------------------------------------------------------
(* Two peers claim the same room name: claim_room_name on each, and the    *)
(* room-registry topic between them                                        *)

RacePeers == {alice, bob}

Other(p) == CHOOSE q \in RacePeers : q # p

\* now_ms() on each peer: the early peer's claim time is 10 ms before that of
\* any other peer
RaceSince(p) == IF p = early THEN 100 ELSE 100 + 10

\* Uuid::new_v4() on each peer: a different uuid on each
RaceRoomId(p) ==
    lobby \o (IF p = alice THEN <<49>> ELSE IF p = bob THEN <<50>> ELSE <<51>>)

\* both calls are suspended in join_topic; no call has any other state yet
RaceInit ==
    /\ early \in RacePeers
    /\ rpc = [p \in RacePeers |-> "join"]
    /\ rclaim = [p \in RacePeers |-> NoClaim]
    /\ rnames = [p \in RacePeers |-> EmptyTable]
    /\ rheard = [p \in RacePeers |-> <<>>]
    /\ rret = [p \in RacePeers |-> NoRet]
    /\ inflight = [p \in RacePeers |-> {}]
    /\ overlapped = FALSE
    /\ cmp = <<>>
    /\ verdict = NoVerdict
    /\ which = "none"
    /\ owners = EmptyTable
    /\ names = EmptyTable
    /\ applied = <<>>
    /\ Idle
    /\ known = <<>>
    /\ snaps = <<>>
    /\ built = NoEnvelope

raceFrame == <<ruleVars, tableVars, roundVars, serveVars, envVars, early>>

\* gossip.subscribe returned Ok on p: p is subscribed, builds its claim and
\* is suspended in th.publish
RaceJoinOk(p) ==
    /\ rpc[p] = "join"
    /\ rpc' = [rpc EXCEPT ![p] = "publish"]
    /\ rclaim' = [rclaim EXCEPT
                     ![p] = RoomClaim(nameAb, p, RaceSince(p), RaceRoomId(p))]
    /\ UNCHANGED <<raceFrame, rnames, rheard, rret, inflight, overlapped>>

RaceJoinErr(p) ==
    /\ rpc[p] = "join"
    /\ rpc' = [rpc EXCEPT ![p] = "done"]
    /\ rret' = [rret EXCEPT ![p] = Err("join_topic")]
    /\ UNCHANGED <<raceFrame, rclaim, rnames, rheard, inflight, overlapped>>

\* topic.broadcast returned Ok on p: the message is on its way to the peers
\* subscribed at that moment (gossip keeps no history for later subscribers,
\* and a peer does not receive its own broadcast); p seeds its table and is
\* suspended in th.next() under the timeout
RacePublishOk(p) ==
    /\ rpc[p] = "publish"
    /\ rpc' = [rpc EXCEPT ![p] = "collect"]
    /\ rnames' = [rnames EXCEPT ![p] = apply_claim(EmptyTable, rclaim[p])]
    /\ inflight' =
           [q \in DOMAIN rpc |->
               IF q # p /\ rpc[q] \in {"publish", "collect"}
               THEN inflight[q]
                        \cup {to_vec(RoomClaimEnvelope(rclaim[p], "uuid"), rclaim[p])}
               ELSE inflight[q]]
    /\ overlapped' = (overlapped \/ \E q \in DOMAIN rpc \ {p} : rpc[q] = "collect")
    /\ UNCHANGED <<raceFrame, rclaim, rheard, rret>>

RacePublishErr(p) ==
    /\ rpc[p] = "publish"
    /\ rpc' = [rpc EXCEPT ![p] = "done"]
    /\ rret' = [rret EXCEPT ![p] = Err("publish")]
    /\ UNCHANGED <<raceFrame, rclaim, rnames, rheard, inflight, overlapped>>

\* th.next() returned Ok(b) on p; the topic may deliver b again later (dup)
RaceRecv(p, b, dup) ==
    /\ rpc[p] = "collect"
    /\ b \in inflight[p]
    /\ Len(rheard[p]) < MaxRaceHeard
    /\ rheard' = [rheard EXCEPT ![p] = Append(@, b)]
    /\ inflight' = [inflight EXCEPT ![p] = IF dup THEN @ ELSE @ \ {b}]
    /\ LET d == from_slice_RoomClaim(b)
       IN  rnames' = [rnames EXCEPT
                         ![p] = IF d.ok THEN apply_claim(@, d.env.body) ELSE @]
    /\ UNCHANGED <<raceFrame, rpc, rclaim, rret, overlapped>>

\* the window of p is over (th.next() returned Err and the loop broke, or
\* wait_ms elapsed): p decides on its table
RaceClose(p) ==
    /\ rpc[p] = "collect"
    /\ rpc' = [rpc EXCEPT ![p] = "done"]
    /\ rret' = [rret EXCEPT
                   ![p] = Ok(claim_room_name_decision(rnames[p], nameAb, p,
                                                      rclaim[p].room_id))]
    /\ UNCHANGED <<raceFrame, rclaim, rnames, rheard, inflight, overlapped>>

RaceNext ==
    \E p \in DOMAIN rpc :
        \/ RaceJoinOk(p)
        \/ RaceJoinErr(p)
        \/ RacePublishOk(p)
        \/ RacePublishErr(p)
        \/ \E b \in inflight[p], dup \in BOOLEAN : RaceRecv(p, b, dup)
        \/ RaceClose(p)

RaceSpec == RaceInit /\ [][RaceNext]_vars

\* three peers call claim_room_name for the same room name; one of them reads
\* the earliest clock, or all three read the same millisecond
MutualInit ==
    /\ early \in Peers \cup {<<>>}
    /\ rpc = [p \in Peers |-> "join"]
    /\ rclaim = [p \in Peers |-> NoClaim]
    /\ rnames = [p \in Peers |-> EmptyTable]
    /\ rheard = [p \in Peers |-> <<>>]
    /\ rret = [p \in Peers |-> NoRet]
    /\ inflight = [p \in Peers |-> {}]
    /\ overlapped = FALSE
    /\ cmp = <<>>
    /\ verdict = NoVerdict
    /\ which = "none"
    /\ owners = EmptyTable
    /\ names = EmptyTable
    /\ applied = <<>>
    /\ Idle
    /\ known = <<>>
    /\ snaps = <<>>
    /\ built = NoEnvelope

\* th.next() returned Ok(b) on p, one of three peers. The topic keeps b for
\* another delivery; a peer to which b is not delivered again, or never, is
\* one whose window closes first.
MutualRecv(p, b) ==
    /\ rpc[p] = "collect"
    /\ b \in inflight[p]
    /\ Len(rheard[p]) < MaxRaceHeard
    /\ rheard' = [rheard EXCEPT ![p] = Append(@, b)]
    /\ LET d == from_slice_RoomClaim(b)
       IN  rnames' = [rnames EXCEPT
                         ![p] = IF d.ok THEN apply_claim(@, d.env.body) ELSE @]
    /\ UNCHANGED <<raceFrame, rpc, rclaim, rret, inflight, overlapped>>

MutualNext ==
    \E p \in DOMAIN rpc :
        \/ RaceJoinOk(p)
        \/ RaceJoinErr(p)
        \/ RacePublishOk(p)
        \/ RacePublishErr(p)
        \/ \E b \in inflight[p] : MutualRecv(p, b)
        \/ RaceClose(p)

MutualSpec == MutualInit /\ [][MutualNext]_vars

----------------------------------------------------------------------------
(* Properties of the race of two peers (RaceSpec) *)

late == Other(early)

BothReturnedOk == \A p \in RacePeers : rpc[p] = "done" /\ rret[p].ok

\* p received, in its window, the claim q published
HeardFrom(p, q) ==
    \E i \in 1..Len(rheard[p]) :
        LET d == from_slice_RoomClaim(rheard[p][i])
        IN  d.ok /\ d.env.body = rclaim[q]

RaceKey == to_lowercase(nameAb)

\* C12 (as stated): two peers with different ids joined, published and
\* collected for the same room name, their windows overlapped and their claim
\* times are 10 ms apart: the earlier peer returns owned = true and the later
\* peer returns owned = false.
C12_EarlierOwnsLaterLoses ==
    (BothReturnedOk /\ overlapped) =>
        /\ rret[early].val[2] = TRUE
        /\ rret[late].val[2] = FALSE

\* C12 (amended): in such a race the earlier peer returns owned = true with
\* the room id it generated; the later peer returns owned = false exactly
\* when the earlier peer's claim reached it within its window, and what it
\* returns beside the flag is the room id it generated itself (claim_room_name
\* derives no fallback name).
C12_EarlierOwnsLaterLosesIfHeard ==
    BothReturnedOk =>
        /\ rret[early] = Ok(<<rclaim[early].room_id, TRUE>>)
        /\ rret[late] = Ok(<<rclaim[late].room_id, ~HeardFrom(late, early)>>)

\* both windows were open at once, each peer received the other's claim, and
\* the later peer lost
C12_Witness ==
    /\ BothReturnedOk /\ overlapped
    /\ HeardFrom(late, early) /\ HeardFrom(early, late)
    /\ early = bob
    /\ rret[bob] = Ok(<<RaceRoomId(bob), TRUE>>)
    /\ rret[alice] = Ok(<<RaceRoomId(alice), FALSE>>)

\* C13 (as stated): after the two peers have run claim_room_name for the same
\* room name in the same window, the records for that name in both peers'
\* tables carry the same room_id, the one generated by the winning claimant.
C13_TablesAgreeOnRoomId ==
    (BothReturnedOk /\ overlapped) =>
        \A p \in RacePeers : rnames[p][RaceKey][4] = rclaim[early].room_id

\* C13 (amended): the earlier (winning) peer's record always carries the
\* room_id it generated; the later peer's record is the winner's claim, and
\* so carries the same room_id, once the winner's claim has reached it, in
\* whatever order and however often the claims were delivered; until then the
\* later peer's record carries the later peer's own room_id.
C13_TablesAgreeOnceHeard ==
    \A p \in RacePeers :
        (rpc[p] = "collect" \/ (rpc[p] = "done" /\ rret[p].ok)) =>
            /\ DOMAIN rnames[p] = {RaceKey}
            /\ rnames[p][RaceKey] =
                   IF p = early \/ ~HeardFrom(p, early)
                   THEN <<p, RaceSince(p), nameAb, rclaim[p].room_id>>
                   ELSE <<early, RaceSince(early), nameAb, rclaim[early].room_id>>

\* the later peer received the winner's claim twice, the winner received the
\* later peer's claim, and both tables hold the winner's room id
C13_Witness ==
    /\ BothReturnedOk /\ overlapped
    /\ early = alice
    /\ Len(rheard[bob]) = 2 /\ HeardFrom(bob, alice) /\ HeardFrom(alice, bob)
    /\ rnames[alice][RaceKey][4] = RaceRoomId(alice)
    /\ rnames[bob][RaceKey][4] = RaceRoomId(alice)

----------------------------------------------------------------------------
(* Properties of list_rooms (RoundSpec) *)

\* the rooms a received message carries on the wire: those of a
\* LIST_ROOMS_RES body, none for any other message
RoomsOnWire(b) ==
    IF b \in {Garbage, UnknownTag} THEN <<>>
    ELSE IF b.body.type = "LIST_ROOMS_RES" THEN b.body.rooms
    ELSE <<>>

\* the rooms of the first n received messages, one after the other
RECURSIVE RoomsHeard(_)
RoomsHeard(n) ==
    IF n = 0 THEN <<>> ELSE RoomsHeard(n - 1) \o RoomsOnWire(heard[n])

\* C14: list_rooms publishes one ListRoomsReq and returns the rooms of every
\* ListRoomsRes received in its window, concatenated in arrival order, with
\* duplicates kept; requests, announcements and undecodable messages add
\* nothing, and without a reply the result is the empty list.
C14_ListIsConcatenationOfReplies ==
    (op = "list_rooms" /\ (pc = "collect" \/ (pc = "done" /\ ret.ok))) =>
        /\ Len(sent) = 1
        /\ from_slice_DiscoveryBody(sent[1]).ok
        /\ from_slice_DiscoveryBody(sent[1]).env.body = ListRoomsReq
        /\ out = RoomsHeard(Len(heard))
        /\ pc = "done" => ret = Ok(RoomsHeard(Len(heard)))
        /\ (\A i \in 1..Len(heard) : RoomsOnWire(heard[i]) = <<>>) => out = <<>>

\* two replies naming the same room, a request and noise between them
C14_Witness ==
    /\ op = "list_rooms" /\ pc = "done"
    /\ Len(heard) = 4
    /\ RoomsOnWire(heard[1]) = <<summary1>>
    /\ heard[2] = Garbage
    /\ from_slice_DiscoveryBody(heard[3]).ok
    /\ from_slice_DiscoveryBody(heard[3]).env.body = ListRoomsReq
    /\ RoomsOnWire(heard[4]) = <<summary1, summary2>>
    /\ ret = Ok(<<summary1, summary1, summary2>>)

----------------------------------------------------------------------------
(* serve_discovery: the responder loop *)

\* what the caller's known_rooms closure can return
Snapshots == {<<>>, <<summary1>>, <<summary1, summary2>>}

\* what the discovery topic delivers to the responder
ServeTopicBytes ==
    {to_vec(Envelope("Discovery", "Global", None, "client", "uuid", 100, b),
            DiscoveryBodyJson(b)) :
        b \in {ListRoomsReq, ListRoomsRes(<<summary2>>),
               AnnounceRoom(lobby \o <<49>>, nameAb, alice, 50)}}
        \cup {Garbage, UnknownTag}

\* the envelope serve_discovery builds around its response
ListRoomsResEnvelope(rooms, msg_id, ts) ==
    Envelope("Discovery", "Global", None, "server", msg_id, ts, ListRoomsRes(rooms))

\* serve_discovery was called and is suspended in join_topic
ServeInit ==
    /\ pc = "join"
    /\ op = "serve_discovery"
    /\ desired = <<>>
    /\ my_peer_id = <<>>
    /\ claim = NoClaim
    /\ out = <<>>
    /\ sent = <<>>
    /\ heard = <<>>
    /\ logging = TRUE
    /\ ended = "none"
    /\ failed = "none"
    /\ ret = NoRet
    /\ known \in Snapshots
    /\ snaps = <<>>
    /\ cmp = <<>>
    /\ verdict = NoVerdict
    /\ which = "none"
    /\ owners = EmptyTable
    /\ names = EmptyTable
    /\ applied = <<>>
    /\ built = NoEnvelope
    /\ early = <<>>
    /\ rpc = <<>>
    /\ rclaim = <<>>
    /\ rnames = <<>>
    /\ rheard = <<>>
    /\ rret = <<>>
    /\ inflight = <<>>
    /\ overlapped = FALSE

serveFrame == <<ruleVars, tableVars, envVars, raceVars, callVars, claim,
                logging, ended>>

\* join_topic(topic).await? returned Ok: the loop is suspended in th.next()
ServeJoinOk ==
    /\ pc = "join" /\ op = "serve_discovery"
    /\ pc' = "next"
    /\ UNCHANGED <<serveFrame, serveVars, out, sent, heard, failed, ret>>

ServeJoinErr ==
    /\ pc = "join" /\ op = "serve_discovery"
    /\ pc' = "done"
    /\ failed' = "join_topic"
    /\ ret' = Err("join_topic")
    /\ UNCHANGED <<serveFrame, serveVars, out, sent, heard>>

\* th.next().await? returned b: on a ListRoomsReq the loop calls
\* known_rooms(), builds the response and is suspended in th.publish; on
\* anything else it goes back to th.next()
ServeNext_answers_every_body(b) ==
    /\ pc = "next"
    /\ Len(heard) < MaxHeard
    /\ heard' = Append(heard, b)
    /\ LET d == from_slice_DiscoveryBody(b)
       IN  IF d.ok
           THEN /\ snaps' = Append(snaps, known)
                /\ \E t \in Ts :
                       out' = to_vec(ListRoomsResEnvelope(known, "uuid", t),
                                     DiscoveryBodyJson(ListRoomsRes(known)))
                /\ pc' = "publish"
           ELSE UNCHANGED <<snaps, out, pc>>
    /\ UNCHANGED <<serveFrame, known, sent, failed, ret>>

ServeNext_stops_on_undecodable(b) ==
    /\ pc = "next"
    /\ Len(heard) < MaxHeard
    /\ heard' = Append(heard, b)
    /\ LET d == from_slice_DiscoveryBody(b)
       IN  IF d.ok /\ d.env.body.variant = "ListRoomsReq"
           THEN /\ snaps' = Append(snaps, known)
                /\ \E t \in Ts :
                       out' = to_vec(ListRoomsResEnvelope(known, "uuid", t),
                                     DiscoveryBodyJson(ListRoomsRes(known)))
                /\ pc' = "publish"
                /\ UNCHANGED ret
           ELSE /\ pc' = IF d.ok THEN pc ELSE "done"
                /\ ret' = IF d.ok THEN ret ELSE Err("decode")
                /\ UNCHANGED <<snaps, out>>
    /\ UNCHANGED <<serveFrame, known, sent, failed>>

ServeNext(b) ==
    /\ pc = "next"
    /\ Len(heard) < MaxHeard
    /\ heard' = Append(heard, b)
    /\ LET d == from_slice_DiscoveryBody(b)
       IN  IF d.ok /\ d.env.body.variant = "ListRoomsReq"
           THEN /\ snaps' = Append(snaps, known)
                /\ \E t \in Ts :
                       out' = to_vec(ListRoomsResEnvelope(known, "uuid", t),
                                     DiscoveryBodyJson(ListRoomsRes(known)))
                /\ pc' = "publish"
           ELSE UNCHANGED <<snaps, out, pc>>
    /\ UNCHANGED <<serveFrame, known, sent, failed, ret>>

\* th.next().await? returned Err: serve_discovery returns it
ServeNextErr ==
    /\ pc = "next"
    /\ pc' = "done"
    /\ failed' = "next"
    /\ ret' = Err("next")
    /\ UNCHANGED <<serveFrame, serveVars, out, sent, heard>>

\* th.publish(..).await? returned Ok: back to th.next()
ServePublishOk ==
    /\ pc = "publish" /\ op = "serve_discovery"
    /\ pc' = "next"
    /\ sent' = Append(sent, out)
    /\ out' = <<>>
    /\ UNCHANGED <<serveFrame, serveVars, heard, failed, ret>>

\* th.publish(..).await? returned Err: serve_discovery returns it
ServePublishErr ==
    /\ pc = "publish" /\ op = "serve_discovery"
    /\ pc' = "done"
    /\ failed' = "publish"
    /\ ret' = Err("publish")
    /\ UNCHANGED <<serveFrame, serveVars, out, sent, heard>>

\* the caller's rooms change, and with them what known_rooms() returns
KnownRoomsChange(k) ==
    /\ pc # "done"
    /\ k # known
    /\ known' = k
    /\ UNCHANGED <<ruleVars, tableVars, envVars, raceVars, roundVars, snaps>>

ServeStep ==
    \/ ServeJoinOk
    \/ ServeJoinErr
    \/ \E b \in ServeTopicBytes : ServeNext(b)
    \/ ServeNextErr
    \/ ServePublishOk
    \/ ServePublishErr
    \/ \E k \in Snapshots : KnownRoomsChange(k)

ServeSpec == ServeInit /\ [][ServeStep]_vars

----------------------------------------------------------------------------
(* Properties of serve_discovery (ServeSpec) *)

\* the received message is a ListRoomsReq on the wire
IsRequest(b) == b \notin {Garbage, UnknownTag} /\ b.body.type = "LIST_ROOMS_REQ"

Requests == SelectSeq(heard, IsRequest)

\* the responses whose publish has not returned Ok: the one being published,
\* or the one whose publish failed and ended the loop
Unpublished == IF pc = "publish" \/ failed = "publish" THEN 1 ELSE 0

\* C15: for every ListRoomsReq received, in the order received, the responder
\* publishes one ListRoomsRes carrying what known_rooms() returned when that
\* request was handled (the last one may still be in th.publish, or its
\* publish may have failed and ended the loop); nothing is published for an
\* AnnounceRoom, a ListRoomsRes or an undecodable message.
C15_OneResponsePerRequest ==
    op = "serve_discovery" =>
        /\ Len(snaps) = Len(Requests)
        /\ Len(sent) = Len(Requests) - Unpublished
        /\ \A i \in 1..Len(sent) :
               LET d == from_slice_DiscoveryBody(sent[i])
               IN  /\ d.ok
                   /\ d.env.body = ListRoomsRes(snaps[i])
                   /\ d.env.sender_id = "server"
        /\ pc = "publish" =>
               LET d == from_slice_DiscoveryBody(out)
               IN  d.ok /\ d.env.body = ListRoomsRes(snaps[Len(snaps)])

\* two requests with a response of another responder between them; the rooms
\* changed after the first request was answered
C15_Witness ==
    /\ op = "serve_discovery" /\ pc = "next"
    /\ Len(heard) = 4
    /\ IsRequest(heard[1]) /\ ~IsRequest(heard[2]) /\ heard[2] # Garbage
    /\ heard[2].body.type = "LIST_ROOMS_RES"
    /\ IsRequest(heard[3]) /\ heard[4] = Garbage
    /\ snaps = <<(<<summary1>>), (<<summary1, summary2>>)>>
    /\ Len(sent) = 2
    /\ from_slice_DiscoveryBody(sent[1]).env.body = ListRoomsRes(<<summary1>>)
    /\ from_slice_DiscoveryBody(sent[2]).env.body =
           ListRoomsRes(<<summary1, summary2>>)

----------------------------------------------------------------------------
(* The envelope builders of protocol.rs and the envelopes of the operations *)

ChatMsg(text) == [text |-> text]

\* make_envelope: ver and a fresh msg_id are filled in, the rest is passed on
make_envelope(kind, scope, room_id, sender_id, ts, body) ==
    Envelope(kind, scope, room_id, sender_id, "uuid", ts, body)

\* make_chat_global and make_chat_room, with what now_ms() returned
make_chat_global(sender_id, text, now) ==
    make_envelope("Chat", "Global", None, sender_id, now, ChatMsg(text))

make_chat_room(room_id, sender_id, text, now) ==
    make_envelope("Chat", "Room", Some(room_id), sender_id, now, ChatMsg(text))

\* the envelope announce_room builds
AnnounceRoomEnvelope(room_id, title, host_id, created_at, ts) ==
    Envelope("Discovery", "Global", None, host_id, "uuid", ts,
             AnnounceRoom(room_id, title, host_id, created_at))

Kinds == {"Discovery", "Room", "Chat", "Game"}
Scopes == {"Global", "Room"}
OptRoomIds == {None} \cup {Some(r) : r \in RoomIds}
Bodies == {ChatMsg("hi"), ListRoomsReq}

EnvInit ==
    /\ built = NoEnvelope
    /\ cmp = <<>>
    /\ verdict = NoVerdict
    /\ which = "none"
    /\ owners = EmptyTable
    /\ names = EmptyTable
    /\ applied = <<>>
    /\ Idle
    /\ known = <<>>
    /\ snaps = <<>>
    /\ early = <<>>
    /\ rpc = <<>>
    /\ rclaim = <<>>
    /\ rnames = <<>>
    /\ rheard = <<>>
    /\ rret = <<>>
    /\ inflight = <<>>
    /\ overlapped = FALSE

envFrame == <<ruleVars, tableVars, roundVars, serveVars, raceVars>>

\* a caller builds an envelope with make_envelope
MakeEnvelope(kind, scope, room_id, sender_id, ts, body) ==
    /\ built' = make_envelope(kind, scope, room_id, sender_id, ts, body)
    /\ UNCHANGED envFrame

MakeChatGlobal(sender_id, now) ==
    /\ built' = make_chat_global(sender_id, "hi", now)
    /\ UNCHANGED envFrame

MakeChatRoom(room_id, sender_id, now) ==
    /\ built' = make_chat_room(room_id, sender_id, "hi", now)
    /\ UNCHANGED envFrame

\* claim_unique, claim_room_name, announce_room, list_rooms or
\* serve_discovery builds its envelope
OperationBuilds(e) ==
    /\ built' = e
    /\ UNCHANGED envFrame

\* the envelopes sent under a peer id (claims, announcements) and those
\* sent as "client" or "server" (list_rooms, serve_discovery)
PeerEnvelopes ==
    {NameClaimEnvelope(c, "uuid") : c \in HeardNameClaims}
        \cup {RoomClaimEnvelope(c, "uuid") : c \in HeardRoomClaims}
        \cup {AnnounceRoomEnvelope(r, nameAb, p, t, t) :
                  r \in RoomIds, p \in Peers, t \in Ts}

ListEnvelopes ==
    {ListRoomsReqEnvelope("uuid", t) : t \in Ts}
        \cup {ListRoomsResEnvelope(k, "uuid", t) : k \in Snapshots, t \in Ts}

EnvNext ==
    \/ \E kind \in Kinds, scope \in Scopes, room_id \in OptRoomIds,
          sender_id \in {alice, bob}, ts \in Ts, body \in Bodies :
           MakeEnvelope(kind, scope, room_id, sender_id, ts, body)
    \/ \E sender_id \in {alice, bob}, now \in Ts : MakeChatGlobal(sender_id, now)
    \/ \E room_id \in RoomIds, sender_id \in {alice, bob}, now \in Ts :
           MakeChatRoom(room_id, sender_id, now)
    \/ \E e \in PeerEnvelopes : OperationBuilds(e)
    \/ \E e \in ListEnvelopes : OperationBuilds(e)

EnvSpec == EnvInit /\ [][EnvNext]_vars

\* C16: in every envelope built by make_envelope, make_chat_global,
\* make_chat_room or by the claim, announce, list and serve operations,
\* room_id is present if and only if scope is Room.
C16_RoomIdIffRoomScope ==
    built # NoEnvelope => ((built.room_id # None) <=> (built.scope = "Room"))

----------------------------------------------------------------------------
(* Decisions, early ends and publications of one call (RoundSpec) *)

\* C17: claim_unique returns owned = true exactly when, at the close of the
\* window, the record for lower(desired) has owner my_peer_id, and the name
\* it then returns is that record's display name; the record is never absent
\* once the table has been seeded with the own claim.
C17_OwnedIffRecordIsMine ==
    op = "claim_unique" =>
        /\ (pc = "collect" \/ (pc = "done" /\ ret.ok)) => Key \in DOMAIN owners
        /\ (pc = "done" /\ ret.ok) =>
               /\ ret.val[2] = (owners[Key][1] = my_peer_id)
               /\ ret.val[2] => ret.val[1] = owners[Key][3]

\* the peer kept "Ab" against a later rival and got back the casing "ab" that
\* a claim under its own id had left in the record
C17_Witness ==
    /\ op = "claim_unique" /\ pc = "done" /\ ret.ok
    /\ claim.since_ts = 50
    /\ \E i \in 1..Len(heard) :
           /\ Decodes(heard[i])
           /\ BodyOf(heard[i]).nick_lower = Key
           /\ BodyOf(heard[i]).owner_peer_id # my_peer_id
    /\ owners[Key] = <<my_peer_id, 50, nameab>>
    /\ ret.val = <<nameab, TRUE>>


\* the received messages that are claims on the wire, as claims
IsClaimOnWire(b) == b \notin {Garbage, UnknownTag}

ClaimsHeard ==
    LET on_wire == SelectSeq(heard, IsClaimOnWire)
    IN  [i \in 1..Len(on_wire) |-> on_wire[i].body]

\* the table built from the own claim and then the claims received, in order
TableOfWindow ==
    IF op = "claim_unique" THEN FoldName(apply(EmptyTable, claim), ClaimsHeard)
    ELSE FoldRoom(apply_claim(EmptyTable, claim), ClaimsHeard)

\* C18: in claim_unique and claim_room_name a receive failure or a closed
\* topic ends the window at once, and the operation returns Ok with the
\* decision taken on the table as it stood: the own claim and every claim
\* applied before the failure.
C18_ReceiveFailureDecidesOnTableSoFar ==
    (pc = "done" /\ failed = "next" /\ op \in {"claim_unique", "claim_room_name"}) =>
        /\ ended = "recv_err"
        /\ Collected = TableOfWindow
        /\ ret = Ok(IF op = "claim_unique"
                    THEN claim_unique_decision(TableOfWindow, desired, my_peer_id)
                    ELSE claim_room_name_decision(TableOfWindow, desired,
                                                  my_peer_id, claim.room_id))

\* the topic closed after one message, an earlier rival's claim
C18_Witness ==
    /\ pc = "done" /\ failed = "next" /\ op = "claim_room_name"
    /\ Len(heard) = 1 /\ IsClaimOnWire(heard[1])
    /\ heard[1].body.name_lower = Key
    /\ heard[1].body.owner_peer_id = alice
    /\ heard[1].body.since_ts < claim.since_ts
    /\ ret = Ok(<<claim.room_id, FALSE>>)


\* the bytes of the operation's own claim
OwnClaimBytes ==
    IF op = "claim_unique" THEN to_vec(NameClaimEnvelope(claim, "uuid"), claim)
    ELSE to_vec(RoomClaimEnvelope(claim, "uuid"), claim)

\* C19: one call of claim_unique or claim_room_name publishes exactly one
\* message, its own claim for the desired name, before it receives anything,
\* and nothing after that; a call that lost has published no claim for the
\* fallback name it returns.
C19_OneClaimPublishedOnce ==
    op \in {"claim_unique", "claim_room_name"} =>
        /\ (pc \in {"join", "publish"} \/ failed \in {"join_topic", "publish"}) =>
               sent = <<>> /\ heard = <<>>
        /\ (pc = "collect" \/ (pc = "done" /\ ret.ok)) =>
               /\ sent = <<OwnClaimBytes>>
               /\ sent[1].body.owner_peer_id = my_peer_id
               /\ (IF op = "claim_unique" THEN sent[1].body.nickname
                   ELSE sent[1].body.name) = desired
        /\ (pc = "done" /\ ret.ok /\ ~ret.val[2] /\ op = "claim_unique") =>
               \A i \in 1..Len(sent) : sent[i].body.nickname # ret.val[1]

\* a call that heard three messages, lost to a rival and returned its fallback
C19_Witness ==
    /\ op = "claim_unique" /\ pc = "done" /\ ret.ok
    /\ ~ret.val[2]
    /\ Len(heard) = 3
    /\ Len(sent) = 1
    /\ sent[1].body.nickname = nameAb
    /\ ret.val[1] # nameAb


KeyOf(c) == IF op = "claim_unique" THEN c.nick_lower ELSE c.name_lower

\* the claims received for key k alone, in order
ClaimsHeardFor(k) ==
    LET for_k(c) == KeyOf(c) = k
    IN  SelectSeq(ClaimsHeard, for_k)

\* the table of a round in which only the claims for key k were received
TableOfKey(k) ==
    IF op = "claim_unique"
    THEN FoldName(IF k = Key THEN apply(EmptyTable, claim) ELSE EmptyTable,
                  ClaimsHeardFor(k))
    ELSE FoldRoom(IF k = Key THEN apply_claim(EmptyTable, claim) ELSE EmptyTable,
                  ClaimsHeardFor(k))

\* C20: the table of a round holds nothing but the keys claimed in that round,
\* the record of each key is what the claims for that key alone produce, and
\* the decision for lower(desired) is the one the round would take had it
\* received no claim for any other key.
C20_KeysDoNotInterfere ==
    (/\ op \in {"claim_unique", "claim_room_name"}
     /\ pc = "collect" \/ (pc = "done" /\ ret.ok)) =>
        /\ DOMAIN Collected =
               {Key} \cup {KeyOf(ClaimsHeard[i]) : i \in 1..Len(ClaimsHeard)}
        /\ \A k \in DOMAIN Collected : Collected[k] = TableOfKey(k)[k]
        /\ pc = "done" =>
               ret = Ok(IF op = "claim_unique"
                        THEN claim_unique_decision(TableOfKey(Key), desired,
                                                   my_peer_id)
                        ELSE claim_room_name_decision(TableOfKey(Key), desired,
                                                      my_peer_id, claim.room_id))

\* claims for "b" arrived before and after a rival's claim for "ab"
C20_Witness ==
    /\ op = "claim_unique" /\ pc = "done" /\ ret.ok
    /\ Len(ClaimsHeard) = 3
    /\ KeyOf(ClaimsHeard[1]) # Key
    /\ KeyOf(ClaimsHeard[2]) = Key /\ ClaimsHeard[2].owner_peer_id = alice
    /\ ClaimsHeard[2].since_ts < claim.since_ts
    /\ KeyOf(ClaimsHeard[3]) # Key
    /\ DOMAIN owners = {Key, to_lowercase(nameB)}
    /\ owners[Key][1] = alice
    /\ ~ret.val[2]

----------------------------------------------------------------------------
(* Properties of the responder loop's end (ServeSpec) *)

\* C21 (as stated): once serve_discovery has entered its loop, the loop stops
\* only when receive returns an error, which serve_discovery returns.
C21_OnlyReceiveErrorEndsLoop ==
    (op = "serve_discovery" /\ pc = "done" /\ failed # "join_topic") =>
        failed = "next" /\ ret = Err("next")

\* C21 (amended): the loop goes back to th.next() after an undecodable
\* message and after an AnnounceRoom or ListRoomsRes; it stops only when
\* receive, or the publish of a response, returns an error, and
\* serve_discovery returns that error; it never returns Ok.
C21_OnlyTransportErrorEndsLoop ==
    [][op = "serve_discovery" =>
          /\ (heard' # heard /\ ~IsRequest(heard'[Len(heard')])) =>
                 pc' = "next" /\ ret' = NoRet
          /\ (heard' # heard /\ IsRequest(heard'[Len(heard')])) =>
                 pc' = "publish" /\ ret' = NoRet
          /\ (pc = "next" /\ pc' = "done") =>
                 heard' = heard /\ failed' = "next" /\ ret' = Err("next")
          /\ (pc = "publish" /\ pc' = "done") =>
                 failed' = "publish" /\ ret' = Err("publish")
          /\ pc' = "done" => ~ret'.ok]_vars

\* the loop outlived noise, an unknown tag and another responder's reply, and
\* ended on a receive error
C21_Witness ==
    /\ op = "serve_discovery" /\ pc = "done"
    /\ Len(heard) = 3
    /\ heard[1] = Garbage /\ heard[2] = UnknownTag
    /\ heard[3] \notin {Garbage, UnknownTag}
    /\ heard[3].body.type = "LIST_ROOMS_RES"
    /\ sent = <<>>
    /\ failed = "next" /\ ret = Err("next")

----------------------------------------------------------------------------
(* Convergence and monotonicity of the tables (TableSpec) *)

AppliedClaims == {applied[i] : i \in 1..Len(applied)}

ClaimKey(c) == IF which = "NameTable" THEN c.nick_lower ELSE c.name_lower

\* the record a claim becomes when it is taken over with all its fields
RecordOf(c) ==
    IF which = "NameTable" THEN <<c.owner_peer_id, c.since_ts, c.nickname>>
    ELSE <<c.owner_peer_id, c.since_ts, c.name, c.room_id>>

\* every owner has contributed at most one distinct claim for each key
OneClaimPerOwner ==
    \A c1, c2 \in AppliedClaims :
        (ClaimKey(c1) = ClaimKey(c2) /\ c1.owner_peer_id = c2.owner_peer_id) =>
            c1 = c2

\* c is minimal under (since_ts, then owner_peer_id) among the claims for its key
IsMinimal(c) ==
    \A c2 \in AppliedClaims :
        (ClaimKey(c2) = ClaimKey(c) /\ c2 # c) =>
            EarlierThenSmaller([ts |-> c.since_ts, owner |-> c.owner_peer_id],
                               [ts |-> c2.since_ts, owner |-> c2.owner_peer_id])

\* C22: when every owner contributes at most one distinct claim for a key,
\* the record of that key, after the claims have been applied in any order
\* and with any duplication, is the claim that is minimal under (since_ts,
\* then owner_peer_id), with all fields taken from that claim.
C22_MinimalClaimIsTheRecord ==
    OneClaimPerOwner =>
        /\ DOMAIN Table = {ClaimKey(c) : c \in AppliedClaims}
        /\ \A c \in AppliedClaims : IsMinimal(c) => Table[ClaimKey(c)] = RecordOf(c)
        /\ \A k \in DOMAIN Table :
               \E c \in AppliedClaims : ClaimKey(c) = k /\ IsMinimal(c)

\* three owners on one key, the earliest applied last: (bob, 100),
\* (alice, 100), (p-aaaaaa111, 50) end with p-aaaaaa111's claim
C22_Witness ==
    /\ which = "NameTable"
    /\ Len(applied) = 3
    /\ OneClaimPerOwner
    /\ applied[1].owner_peer_id = bob /\ applied[1].since_ts = 100
    /\ applied[2].owner_peer_id = alice /\ applied[2].since_ts = 100
    /\ applied[3].owner_peer_id = paaa /\ applied[3].since_ts = 50
    /\ ClaimKey(applied[1]) = ClaimKey(applied[2])
    /\ ClaimKey(applied[2]) = ClaimKey(applied[3])
    /\ owners[ClaimKey(applied[3])] = RecordOf(applied[3])


PairOf(r) == [ts |-> r[2], owner |-> r[1]]

\* C23: over any sequence of apply calls a key once present is never removed
\* and keeps exactly one record, the record's (since_ts, owner_peer_id) pair
\* either stays or moves to a pair that wins against the previous one, and
\* since_ts of a key never increases.
C23_TableIsMonotonic ==
    [][/\ DOMAIN Table \subseteq DOMAIN Table'
       /\ \A k \in DOMAIN Table :
              /\ \/ PairOf(Table'[k]) = PairOf(Table[k])
                 \/ EarlierThenSmaller(PairOf(Table'[k]), PairOf(Table[k]))
              /\ ~EarlierThenSmaller(PairOf(Table[k]), PairOf(Table'[k]))
              /\ Table'[k][2] <= Table[k][2]]_vars

\* a record that was taken over by an earlier claim and then kept against a
\* later one, with a second key present beside it
C23_Witness ==
    /\ Len(applied) = 3
    /\ ClaimKey(applied[1]) = ClaimKey(applied[2])
    /\ ClaimKey(applied[3]) # ClaimKey(applied[1])
    /\ applied[1].since_ts = 100 /\ applied[2].since_ts = 50
    /\ applied[1].owner_peer_id # applied[2].owner_peer_id
    /\ Cardinality(DOMAIN Table) = 2
    /\ Table[ClaimKey(applied[1])] = RecordOf(applied[2])


----------------------------------------------------------------------------
(* Ownership of the minimal claim (RoundSpec) *)

\* the claims another call has published for the desired key, as received
RivalClaims ==
    {heard[i].body :
        i \in {j \in 1..Len(heard) :
                  IsClaimOnWire(heard[j]) /\ KeyOf(heard[j].body) = Key}}

\* each peer has published one claim for the key: nothing but the own claim
\* goes under my_peer_id, and no other owner is heard with two distinct claims
OneClaimPerPeer ==
    /\ \A c \in RivalClaims : c.owner_peer_id # my_peer_id
    /\ \A c1, c2 \in RivalClaims : c1.owner_peer_id = c2.owner_peer_id => c1 = c2

\* the own claim is minimal under (since_ts, owner_peer_id)
OwnClaimIsMinimal ==
    \A c \in RivalClaims :
        EarlierThenSmaller([ts |-> claim.since_ts, owner |-> my_peer_id],
                           [ts |-> c.since_ts, owner |-> c.owner_peer_id])

\* C24: whatever is lost, reordered or duplicated, when each peer publishes
\* at most one claim for a key, the peer whose claim is minimal under
\* (since_ts, owner_peer_id) keeps the record through its window and returns
\* owned = true: no received claim displaces it.
C24_MinimalClaimantOwns ==
    (/\ op \in {"claim_unique", "claim_room_name"}
     /\ pc = "collect" \/ (pc = "done" /\ ret.ok)
     /\ OneClaimPerPeer /\ OwnClaimIsMinimal) =>
        /\ Collected[Key][1] = my_peer_id
        /\ Collected[Key][2] = claim.since_ts
        /\ pc = "done" => ret.val[2]

\* bob claimed at 50 and heard p-aaaaaa111's claim of 50 twice around alice's
\* claim of 100
C24_Witness ==
    /\ op = "claim_room_name" /\ pc = "done" /\ ret.ok
    /\ my_peer_id = bob /\ claim.since_ts = 50
    /\ OneClaimPerPeer /\ OwnClaimIsMinimal
    /\ Len(ClaimsHeardFor(Key)) = 3
    /\ ClaimsHeardFor(Key)[1].owner_peer_id = paaa
    /\ ClaimsHeardFor(Key)[1].since_ts = 50
    /\ ClaimsHeardFor(Key)[2].owner_peer_id = alice
    /\ ClaimsHeardFor(Key)[3] = ClaimsHeardFor(Key)[1]
    /\ ret.val[2]


----------------------------------------------------------------------------
(* Unique ownership among three peers (MutualSpec) *)

\* the peers whose call published a claim and came to a decision
Claimants == {p \in DOMAIN rpc : rpc[p] = "done" /\ rret[p].ok}

AllReturned == \A p \in DOMAIN rpc : rpc[p] = "done"

\* every claimant received, within its window, the claim of every other
MutualDelivery ==
    \A p, q \in Claimants : p # q => HeardFrom(p, q)

Owners == {p \in Claimants : rret[p].val[2]}

\* q's claim does not win against p's
NotBeatenBy(p, q) ==
    ~EarlierThenSmaller([ts |-> rclaim[q].since_ts, owner |-> q],
                        [ts |-> rclaim[p].since_ts, owner |-> p])

\* C25: if every peer claiming a key receives, within its own window, the
\* claim of every other peer claiming that key (each peer claiming once),
\* then exactly one of those peers returns owned = true: the one whose claim
\* is minimal under (since_ts, owner_peer_id).
C25_ExactlyOneOwner ==
    (AllReturned /\ Claimants # {} /\ MutualDelivery) =>
        /\ Cardinality(Owners) = 1
        /\ \A p \in Owners : \A q \in Claimants : NotBeatenBy(p, q)

\* the three peers claimed in the same millisecond, each received the claims
\* of the two others, and alice alone owns the name
C25_Witness ==
    /\ early = <<>>
    /\ AllReturned /\ Claimants = Peers /\ MutualDelivery
    /\ Owners = {alice}
    /\ rheard[alice] # rheard[bob]


----------------------------------------------------------------------------
(* The room id returned by claim_room_name (RoundSpec) *)

\* C26: whenever claim_room_name returns (room_id, owned), the room_id is the
\* one this call generated and published, when owned = false and when
\* owned = true, whatever claims were received in the window.
C26_ReturnsOwnRoomId ==
    (op = "claim_room_name" /\ pc = "done" /\ ret.ok) =>
        /\ ret.val[1] = claim.room_id
        /\ sent[1].body.room_id = ret.val[1]

\* C26, the losing half: a call that returns owned = false returns the room_id
\* it generated and published, never the winner's.
C26_LoserReturnsOwnRoomId ==
    (op = "claim_room_name" /\ pc = "done" /\ ret.ok /\ ~ret.val[2]) =>
        /\ ret.val[1] = claim.room_id
        /\ sent[1].body.room_id = ret.val[1]

====
